---- MODULE Spec2Model ----
(***************************************************************************)
(* Model of the yield-sign video tracker (src/video.py): the command line  *)
(* entry (parse_args, main, load, _save) and the per-frame region tracker  *)
(* (process, _process, _scan_full, _scan_roi, _find_rois, _merge_rois).    *)
(*                                                                         *)
(* The image pipeline (binarize, edge, detect) is an external collaborator:*)
(* the outcome of each detect call is a nondeterministic choice.  The      *)
(* region entity video.ROI and video.Pipeline live outside src/ and are    *)
(* modelled from the specification (ROI, Intersects, Punish, Dead,         *)
(* Pipeline).                                                              *)
(***************************************************************************)
EXTENDS Integers, Sequences, FiniteSets, TLC

\* ------------------------------------------------------------------ bounds
\* number of frames of the longest two-sign video
MaxFrames == 15
\* number of frames of the long single-sign video
LongFrames == 32
\* most detections one detect call reports
MaxDet == 2
\* frame extent (rows, columns)
FrameRows == 9
FrameCols == 9

\* ------------------------------------------------------- program constants
ROI_LIFESPAN == 30
\* a full scan is forced every RescanPeriod frames (i % 15 == 0)
RescanPeriod == 15
\* radius of the decay-indicator disc _draw_roi stamps at a region's corner
DiscRadius == 5
\* half side of a region's bounding box around its barycenter
Margin == 2

Max(a, b) == IF a >= b THEN a ELSE b
Min(a, b) == IF a <= b THEN a ELSE b

\* ------------------------------------------------------------------ inputs
\* The content of the input video decides what detect can report.  Three kinds
\* of content are tried: "rich" (two signs whose regions overlap, any of them
\* found or missed on any frame) and "single" (one sign, found or missed); "border" is a one-frame
\* video with a sign so close to the bottom right corner that drawing its
\* region indexes outside the frame.
Scenes == { "rich", "single", "border" }
\* barycenters a full-frame detect call may report (row, column)
FullPts(scene) ==
    IF scene = "rich" THEN { <<3, 3>>, <<6, 6>> }
    ELSE IF scene = "single" THEN { <<5, 5>> }
    ELSE { <<3, 3>>, <<7, 7>> }
\* barycenters a sub-region detect call may report, relative to the sub-region
LocalPts(scene) == IF scene = "rich" THEN { <<1, 1>>, <<2, 2>> } ELSE { <<2, 2>> }

\* sequences without repetition of at most n elements of S
RECURSIVE SeqsUpTo(_, _)
SeqsUpTo(S, n) ==
    IF n = 0 THEN { <<>> }
    ELSE { <<>> } \cup
         { <<x>> \o s : x \in S, s \in SeqsUpTo(S, n - 1) }

Distinct(s) == \A a, b \in 1..Len(s) : a # b => s[a] # s[b]

\* the detections of one detect call: barycenters in reporting order, the
\* j-th one carrying the key triple <<3j-2, 3j-1, 3j>>
Detections(S) == { s \in SeqsUpTo(S, MaxDet) : Distinct(s) }
Keys(j) == << 3 * j - 2, 3 * j - 1, 3 * j >>
Barycenters(dets) == [ j \in 1..Len(dets) |-> << Keys(j), dets[j] >> ]

\* the points of interest of one detect call: for the j-th detection the three
\* pairwise points of its keys, a fixed triangle around its barycenter
PoisOf(dets) ==
    [ a \in 1..(3 * Len(dets)) |->
        [ b \in 1..(3 * Len(dets)) |->
            LET j == ((a - 1) \div 3) + 1
                y == dets[j][1]
                x == dets[j][2]
            IN  IF b = a + 1 /\ a % 3 = 1 THEN << y - 1, x >>
                ELSE IF b = a + 2 /\ a % 3 = 1 THEN << y + 1, x - 1 >>
                ELSE IF b = a + 1 /\ a % 3 = 2 THEN << y + 1, x + 1 >>
                ELSE << 0, 0 >> ] ]

\* --------------------------------------------------------------- video.ROI
ROI(w, h, y, x, vy, vx, health) ==
    [ r0 |-> Max(0, y - Margin), r1 |-> Min(w, y + Margin),
      c0 |-> Max(0, x - Margin), c1 |-> Min(h, x + Margin),
      vy |-> vy, vx |-> vx, health |-> health ]

Intersects(a, b) ==
    /\ a.r0 < b.r1 /\ b.r0 < a.r1
    /\ a.c0 < b.c1 /\ b.c0 < a.c1

Dead(roi) == roi.health = 0

Punish(roi) == [ roi EXCEPT !.health = @ - 1 ]

\* ----------------------------------------------------------- _get_vertices
GetVertices(keys, pois) ==
    LET p0 == keys[1]
        p1 == keys[2]
        p2 == keys[3]
        pts == << pois[p0][p1], pois[p0][p2], pois[p1][p2] >>
    IN  [ vy |-> << pts[1][1], pts[2][1], pts[3][1] >>,
          vx |-> << pts[1][2], pts[2][2], pts[3][2] >> ]

\* -------------------------------------------------------------- _find_rois
RECURSIVE FindRoisFrom(_, _, _, _, _)
FindRoisFrom(w, h, bs, pois, j) ==
    IF j > Len(bs) THEN << >>
    ELSE LET keys == bs[j][1]
             y == bs[j][2][1]
             x == bs[j][2][2]
             v == GetVertices(keys, pois)
         IN  << ROI(w, h, y, x, v.vy, v.vx, ROI_LIFESPAN) >>
               \o FindRoisFrom(w, h, bs, pois, j + 1)

\* variant: a detection whose region intersects an earlier one is dropped
RECURSIVE FindRoisDedupFrom(_, _, _, _, _, _)
FindRoisDedupFrom(w, h, bs, pois, j, acc) ==
    IF j > Len(bs) THEN acc
    ELSE LET v == GetVertices(bs[j][1], pois)
             r == ROI(w, h, bs[j][2][1], bs[j][2][2], v.vy, v.vx, ROI_LIFESPAN)
         IN  FindRoisDedupFrom(w, h, bs, pois, j + 1,
                 IF \E n \in 1..Len(acc) : Intersects(r, acc[n])
                 THEN acc ELSE Append(acc, r))

FindRois_Dedup(w, h, bs, pois) == FindRoisDedupFrom(w, h, bs, pois, 1, << >>)

FindRois(w, h, bs, pois) == FindRoisFrom(w, h, bs, pois, 1)

\* -------------------------------------------------------------- _scan_full
\* variant: the mode flags are ignored
ScanFull_NoModeCheck(w, h, p, dets) ==
    [ calls |-> << <<"full", "binarize">>, <<"full", "edge">>,
                   <<"full", "detect">> >>,
      dets |-> dets,
      rois |-> FindRois(w, h, Barycenters(dets), PoisOf(dets)) ]

\* _scan_full for a run in mode pipe, when detect (if reached) reports dets:
\* the pipeline stages invoked, in order, and the regions returned
ScanFull(w, h, p, dets) ==
    IF p.binary /\ ~p.edges
    THEN [ calls |-> << <<"full", "binarize">> >>, dets |-> << >>, rois |-> << >> ]
    ELSE IF p.edges
    THEN [ calls |-> << <<"full", "binarize">>, <<"full", "edge">> >>,
           dets |-> << >>, rois |-> << >> ]
    ELSE [ calls |-> << <<"full", "binarize">>, <<"full", "edge">>,
                        <<"full", "detect">> >>,
           dets |-> dets,
           rois |-> FindRois(w, h, Barycenters(dets), PoisOf(dets)) ]

\* --------------------------------------------------------------- _draw_roi
\* the cells of one frame of the buffer
Cells == (0..(FrameRows - 1)) \X (0..(FrameCols - 1))

\* the cells of the sub-frame [r0:r1, c0:c1] of a region
SubRegion(roi) == ((roi.r0)..(roi.r1 - 1)) \X ((roi.c0)..(roi.c1 - 1))

\* polygon_perimeter of the rectangle (r0-1, c0-1)..(r1, c1), cut to the frame
RectPerimeter(roi) ==
    LET y0 == roi.r0 - 1
        y1 == roi.r1
        x0 == roi.c0 - 1
        x1 == roi.c1
    IN  (({ y0, y1 } \X (x0..x1)) \cup ((y0..y1) \X { x0, x1 })) \cap Cells

Offsets == ((0 - DiscRadius)..DiscRadius) \X ((0 - DiscRadius)..DiscRadius)

\* circle(0, 0, 5): the offsets of the filled disc
DiscOffsets ==
    { q \in Offsets : q[1] * q[1] + q[2] * q[2] < DiscRadius * DiscRadius }

\* circle_perimeter(0, 0, 5): Bresenham's circle; for radius 5 the octant
\* points are (5,0) (5,1) (5,2) (4,3), mirrored into the eight octants, that
\* is the offsets whose squared length lies in 25..29
PerimeterOffsets ==
    { q \in Offsets :
        /\ q[1] * q[1] + q[2] * q[2] >= DiscRadius * DiscRadius
        /\ q[1] * q[1] + q[2] * q[2] <= DiscRadius * DiscRadius + 4 }

\* circle(y0, x0, 5, shape): the filled disc, cut to the frame
Disc(roi) ==
    { << roi.r0 - 1 + q[1], roi.c0 - 1 + q[2] >> : q \in DiscOffsets } \cap Cells

\* circle_perimeter(y0, x0, 5): no shape is given, the coordinates are not
\* cut to the frame
CirclePerimeter(roi) ==
    { << roi.r0 - 1 + q[1], roi.c0 - 1 + q[2] >> : q \in PerimeterOffsets }

\* arr[i, rr, cc] = val raises IndexError when a coordinate of the circle
\* perimeter is outside -size..size-1 (a region close to the bottom or right
\* border of the frame); negative coordinates wrap around.
DrawRoiFails(roi) ==
    \/ roi.r0 - 1 + DiscRadius >= FrameRows
    \/ roi.r0 - 1 - DiscRadius < 0 - FrameRows
    \/ roi.c0 - 1 + DiscRadius >= FrameCols
    \/ roi.c0 - 1 - DiscRadius < 0 - FrameCols

\* the cells _draw_roi writes marker values into
DrawRoiCells(roi) ==
    RectPerimeter(roi) \cup Disc(roi)
      \cup { << p[1] % FrameRows, p[2] % FrameCols >> : p \in CirclePerimeter(roi) }

\* --------------------------------------------------------------- _scan_roi
ScanRoiCalls == << <<"roi", "binarize">>, <<"roi", "edge">>, <<"roi", "detect">> >>

\* _scan_roi on region roi, bin and edg being the marker cells of the frame's
\* binary and edges images: whether a drawing fails, the marker cells of the
\* two images afterwards, and the marker cells inside the input handed to
\* binarize, edge and detect.  binarize reads the frame itself, which is
\* drawn on only after the loop (lines 172-175).
ScanRoi(roi, bin, edg) ==
    LET sub == SubRegion(roi)
        marks == DrawRoiCells(roi)
        bin1 == (bin \ sub) \cup marks
        edg1 == (edg \ sub) \cup marks
    IN  [ fails |-> DrawRoiFails(roi),
          binary |-> bin1,
          edges |-> edg1,
          inputs |-> << {}, bin1 \cap sub, (edg1 \cup bin1) \cap sub >> ]

\* the marker cells of the current frame's binary and edges images after
\* the restricted scans of the regions scans, in that order: the full scan,
\* when there is one, writes both images whole and draws nothing
RECURSIVE Marks(_)
Marks(scans) ==
    IF scans = << >>
    THEN [ binary |-> {}, edges |-> {} ]
    ELSE LET before == Marks(SubSeq(scans, 1, Len(scans) - 1))
             scan == ScanRoi(scans[Len(scans)], before.binary, before.edges)
         IN  [ binary |-> scan.binary, edges |-> scan.edges ]

\* the marker cells inside the inputs of binarize, edge and detect in the
\* n-th restricted scan of the frame
StageInputs(scans, n) ==
    LET before == Marks(SubSeq(scans, 1, n - 1))
    IN  ScanRoi(scans[n], before.binary, before.edges).inputs

\* barycenters detect may report inside the sub-region of roi
LocalPtsIn(scene, roi) ==
    { p \in LocalPts(scene) : p[1] < roi.r1 - roi.r0 /\ p[2] < roi.c1 - roi.c0 }

\* ------------------------------------------------------------- _merge_rois
\* variant: the replacement is appended without the intersection test
MergeRois_NoCheck(w, h, roi, barycenter, pois, new_rois) ==
    LET v == GetVertices(barycenter[1], pois)
        vy == [ n \in 1..3 |-> roi.r0 + v.vy[n] ]
        vx == [ n \in 1..3 |-> roi.c0 + v.vx[n] ]
    IN  Append(new_rois, ROI(w, h, barycenter[2][1], barycenter[2][2], vy, vx,
                             ROI_LIFESPAN))

\* the replacement region _merge_rois builds (lines 141-146)
Replacement(w, h, roi, barycenter, pois) ==
    LET v == GetVertices(barycenter[1], pois)
        vy == [ n \in 1..3 |-> roi.r0 + v.vy[n] ]
        vx == [ n \in 1..3 |-> roi.c0 + v.vx[n] ]
    IN  ROI(w, h, barycenter[2][1], barycenter[2][2], vy, vx, ROI_LIFESPAN)

\* variant: the scanned region is carried along with its replacement
MergeRois_AndCarry(w, h, roi, barycenter, pois, new_rois) ==
    LET new_roi == Replacement(w, h, roi, barycenter, pois)
    IN  IF ~(\E n \in 1..Len(new_rois) : Intersects(new_roi, new_rois[n]))
        THEN Append(Append(new_rois, new_roi), roi)
        ELSE Append(new_rois, roi)

\* variant: the replacement is also tested against the scanned region
MergeRois_AgainstOld(w, h, roi, barycenter, pois, new_rois) ==
    LET new_roi == Replacement(w, h, roi, barycenter, pois)
    IN  IF ~(\E n \in 1..Len(new_rois) : Intersects(new_roi, new_rois[n]))
             /\ ~Intersects(new_roi, roi)
        THEN Append(new_rois, new_roi)
        ELSE new_rois

MergeRois(w, h, roi, barycenter, pois, new_rois) ==
    LET keys == barycenter[1]
        y == barycenter[2][1]
        x == barycenter[2][2]
        v == GetVertices(keys, pois)
        vy == [ n \in 1..3 |-> roi.r0 + v.vy[n] ]
        vx == [ n \in 1..3 |-> roi.c0 + v.vx[n] ]
        new_roi == ROI(w, h, y, x, vy, vx, ROI_LIFESPAN)
    IN  IF ~(\E n \in 1..Len(new_rois) : Intersects(new_roi, new_rois[n]))
        THEN Append(new_rois, new_roi)
        ELSE new_rois

\* ---------------------------------------------------------------- _process
\* variant: the empty list does not trigger a full scan
NeedFullScan_RescanOnly(idx, rs) == idx % RescanPeriod = 0

\* the scheduling decision of lines 156-158
NeedFullScan(idx, rs) == (idx % RescanPeriod = 0) \/ (Len(rs) = 0)

\* variant: the region is punished whether dead or not
Miss_NoDeadCheck(roi, new_rois) ==
    [ roi |-> Punish(roi), new_rois |-> Append(new_rois, Punish(roi)) ]

\* variant: the punished region is not carried into the new list
Miss_NoCarry(roi, new_rois) ==
    IF ~Dead(roi)
    THEN [ roi |-> Punish(roi), new_rois |-> new_rois ]
    ELSE [ roi |-> roi, new_rois |-> new_rois ]

\* variant: a dead region is not punished but is carried into the new list
Miss_ReaddDead(roi, new_rois) ==
    IF ~Dead(roi)
    THEN [ roi |-> Punish(roi), new_rois |-> Append(new_rois, Punish(roi)) ]
    ELSE [ roi |-> roi, new_rois |-> Append(new_rois, roi) ]

\* variant: a region that punishment has just killed is not carried
Miss_DropAtZero(roi, new_rois) ==
    IF ~Dead(roi)
    THEN [ roi |-> Punish(roi),
           new_rois |-> IF Dead(Punish(roi)) THEN new_rois
                        ELSE Append(new_rois, Punish(roi)) ]
    ELSE [ roi |-> roi, new_rois |-> new_rois ]

\* a carried-in region whose restricted scan reported nothing (lines 166-169):
\* the region after the step and the new list
Miss(roi, new_rois) ==
    IF ~Dead(roi)
    THEN [ roi |-> Punish(roi), new_rois |-> Append(new_rois, Punish(roi)) ]
    ELSE [ roi |-> roi, new_rois |-> new_rois ]

\* --------------------------------------------------------------- Pipeline
Pipeline(only_binary, only_edges) ==
    [ built |-> TRUE, binary |-> only_binary, edges |-> only_edges ]

NoPipeline == [ built |-> FALSE, binary |-> FALSE, edges |-> FALSE ]

\* ------------------------------------------------------------ video.Buffer
\* the frame counts of the three sequences of the buffer built from video v
Buffer(v) == [ original |-> v.n, binary |-> v.n, edges |-> v.n ]

NoBuffer == [ original |-> 0, binary |-> 0, edges |-> 0 ]

\* ------------------------------------------------------------------- _save
\* A file name is the sequence of its dot-separated components.
\* output file names tried
OutNames == { << "out" >>, << "out", "mp4" >>, << "out", "binary", "mp4" >> }

\* f.rsplit('.', maxsplit=1): the list of pieces, each a file name
RSplit1(f) ==
    IF Len(f) >= 2 THEN << SubSeq(f, 1, Len(f) - 1), << f[Len(f)] >> >>
    ELSE << f >>

\* l.insert(-1, x): x goes before the last element of l
InsertBeforeLast(l, x) ==
    SubSeq(l, 1, Len(l) - 1) \o << x >> \o << l[Len(l)] >>

\* '.'.join(l)
RECURSIVE Join(_)
Join(l) == IF Len(l) = 0 THEN << >> ELSE Head(l) \o Join(Tail(l))

\* one call of save(fname, vid): which sequence, where to, how many frames
SaveCall(seq, to, frames) == [ seq |-> seq, to |-> to, frames |-> frames ]

\* variant: out[-2] = 'edges' is forgotten, the edges go to the binary's name
SaveOutputs_SameName(a, f, b) ==
    IF a.save_all
    THEN LET out == InsertBeforeLast(RSplit1(f), << "binary" >>)
         IN  << SaveCall("binary", Join(out), b.binary),
                SaveCall("edges", Join(out), b.edges),
                SaveCall("original", f, b.original) >>
    ELSE IF a.edges THEN << SaveCall("edges", f, b.edges) >>
    ELSE IF a.binary THEN << SaveCall("binary", f, b.binary) >>
    ELSE << SaveCall("original", f, b.original) >>

\* the save() calls of _save for arguments a, output name f and buffer b
SaveOutputs(a, f, b) ==
    IF a.save_all
    THEN LET out == InsertBeforeLast(RSplit1(f), << "binary" >>)
             out2 == [ out EXCEPT ![Len(out) - 1] = << "edges" >> ]
         IN  << SaveCall("binary", Join(out), b.binary),
                SaveCall("edges", Join(out2), b.edges),
                SaveCall("original", f, b.original) >>
    ELSE IF a.edges THEN << SaveCall("edges", f, b.edges) >>
    ELSE IF a.binary THEN << SaveCall("binary", f, b.binary) >>
    ELSE << SaveCall("original", f, b.original) >>

\* ------------------------------------------------------------------- state
VARIABLES
    pc,          \* position of the program
    args,        \* parsed command line: binary, edges, save_all, config
    vid,         \* the input video: n frames, colour depth, content
    exited,      \* the process has terminated
    exitCode,    \* its exit code (meaningful once exited)
    cfgRead,     \* the configuration file has been read
    loaded,      \* load(): "no" not called, "rejected" exit, "ok" returned
    pipe,        \* the Pipeline object of process()
    bufBuilt,    \* video.Buffer(vid) was constructed
    buf,         \* frame counts of the buffer's three sequences
    saved,       \* the sequences written by save(), in order
    i,           \* index of the frame being processed
    rois,        \* process(): the active list, input of _process
    new_rois,    \* _process(): the list being built
    k,           \* _process(): position of the loop over rois
    barycenters, \* the barycenters of the latest detect call
    fullDets,    \* the barycenters _scan_full's detect reported for the frame
    rois_in,     \* the active list as it was when the frame started
    calls,       \* pipeline stages invoked for the current frame, in order
    fullScans,   \* calls of _scan_full for the current frame
    roiScans,    \* calls of _scan_roi for the current frame
    dark,        \* times the current frame was darkened (frame //= 3)
    drawn,       \* regions drawn onto the current frame
    lone,        \* frame 0 gave exactly one detection and none came since
    scanned,     \* the regions handed to _scan_roi for the current frame
    repl         \* the replacement regions _merge_rois built for the frame

vars == << pc, args, vid, exited, exitCode, cfgRead, loaded, pipe, bufBuilt,
           buf, saved, i, rois, new_rois, k, barycenters, fullDets, rois_in,
           calls, fullScans, roiScans, dark, drawn, lone, scanned, repl >>

cliVars == << args, vid >>
frameVars == << i, rois, new_rois, k, barycenters, fullDets, rois_in, calls,
                fullScans, roiScans, dark, drawn, lone, scanned, repl >>
obsVars == << scanned, repl >>
runVars == << cfgRead, loaded, pipe, bufBuilt, buf, saved >>

Configs == { "none", "good", "bad" }
Depths == { 1, 3, 4 }
\* the input videos tried: length, colour depth, content
Videos ==
    [ n : { 1, 2, MaxFrames }, depth : Depths, scene : { "rich" } ]
      \cup [ n : { LongFrames }, depth : Depths, scene : { "single" } ]
      \cup [ n : { 1 }, depth : Depths, scene : { "border" } ]

Init ==
    /\ pc = "parse_args"
    /\ args \in [ binary : BOOLEAN, edges : BOOLEAN, save_all : BOOLEAN,
                  config : Configs ]
    /\ vid \in Videos
    /\ exited = FALSE
    /\ exitCode = 0
    /\ cfgRead = FALSE
    /\ loaded = "no"
    /\ pipe = NoPipeline
    /\ bufBuilt = FALSE
    /\ buf = NoBuffer
    /\ saved = << >>
    /\ i = 0
    /\ rois = << >>
    /\ new_rois = << >>
    /\ k = 1
    /\ barycenters = << >>
    /\ fullDets = << >>
    /\ rois_in = << >>
    /\ calls = << >>
    /\ fullScans = 0
    /\ roiScans = 0
    /\ dark = 0
    /\ drawn = 0
    /\ lone = FALSE
    /\ scanned = << >>
    /\ repl = << >>

\* sys.exit(code), or an uncaught exception (code 1)
Exit(code) ==
    /\ pc' = "exit"
    /\ exited' = TRUE
    /\ exitCode' = code

\* variant: --save-all is not checked against --binary / --edges
InvalidFlags_NoSaveAll(a) == a.binary /\ a.edges

\* parse_args(): the two flag checks
InvalidFlags(a) ==
    \/ a.binary /\ a.edges
    \/ a.save_all /\ (a.binary \/ a.edges)

ParseArgs ==
    /\ pc = "parse_args"
    /\ IF InvalidFlags(args)
       THEN Exit(2)
       ELSE pc' = "main" /\ UNCHANGED << exited, exitCode >>
    /\ UNCHANGED << cliVars, runVars, frameVars >>

\* main(): the configuration step.  len(args.config) raises TypeError when
\* --config was not given (args.config is None).
MainConfig ==
    /\ pc = "main"
    /\ IF args.config = "none"
       THEN Exit(1) /\ UNCHANGED cfgRead
       ELSE /\ cfgRead' = TRUE
            /\ IF args.config = "bad"
               THEN Exit(2)
               ELSE pc' = "load" /\ UNCHANGED << exited, exitCode >>
    /\ UNCHANGED << cliVars, loaded, pipe, bufBuilt, buf, saved, frameVars >>

\* variant: a video with an alpha channel passes
DepthOk_AtLeast3(v) == v.depth >= 3

\* load(): the colour depth check
DepthOk(v) == v.depth = 3

Load ==
    /\ pc = "load"
    /\ IF ~DepthOk(vid)
       THEN Exit(2) /\ loaded' = "rejected"
       ELSE /\ loaded' = "ok"
            /\ pc' = "process"
            /\ UNCHANGED << exited, exitCode >>
    /\ UNCHANGED << cliVars, cfgRead, pipe, bufBuilt, buf, saved, frameVars >>

\* process(): set-up before the frame loop
ProcessInit ==
    /\ pc = "process"
    /\ pipe' = Pipeline(args.edges \/ args.binary, args.edges)
    /\ bufBuilt' = TRUE
    /\ buf' = Buffer(vid)
    /\ rois' = << >>
    /\ i' = 0
    /\ pc' = "loop"
    /\ UNCHANGED << cliVars, exited, exitCode, cfgRead, loaded, saved,
                    new_rois, k, barycenters, fullDets, rois_in, calls,
                    fullScans, roiScans, dark, drawn, lone, obsVars >>

\* process(): the loop takes the next frame and enters _process
ProcessFrame ==
    /\ pc = "loop"
    /\ i < vid.n
    /\ new_rois' = << >>
    /\ rois_in' = rois
    /\ k' = 1
    /\ pc' = IF NeedFullScan(i, rois) THEN "scan_full" ELSE "scan_roi"
    /\ UNCHANGED << cliVars, runVars, exited, exitCode, i, rois, barycenters,
                    fullDets, calls, fullScans, roiScans, dark, drawn, lone,
                    obsVars >>

\* variant: the regions of the full scan also join the list being iterated
FullScan_IntoRois ==
    /\ pc = "scan_full"
    /\ \E dets \in Detections(FullPts(vid.scene)) :
         LET run == ScanFull(FrameRows, FrameCols, pipe, dets)
         IN  /\ new_rois' = new_rois \o run.rois
             /\ rois' = rois \o run.rois
             /\ calls' = calls \o run.calls
             /\ barycenters' = Barycenters(run.dets)
             /\ fullDets' = run.dets
             /\ lone' = IF i = 0 THEN Len(run.dets) = 1
                        ELSE lone /\ Len(run.dets) = 0
    /\ fullScans' = fullScans + 1
    /\ pc' = "scan_roi"
    /\ UNCHANGED << cliVars, runVars, exited, exitCode, i, k, rois_in,
                    roiScans, dark, drawn, obsVars >>

\* _process(): new_rois += _scan_full(...)
FullScan ==
    /\ pc = "scan_full"
    /\ \E dets \in Detections(FullPts(vid.scene)) :
         LET run == ScanFull(FrameRows, FrameCols, pipe, dets)
         IN  /\ new_rois' = new_rois \o run.rois
             /\ calls' = calls \o run.calls
             /\ barycenters' = Barycenters(run.dets)
             /\ fullDets' = run.dets
             /\ lone' = IF i = 0 THEN Len(run.dets) = 1
                        ELSE lone /\ Len(run.dets) = 0
    /\ fullScans' = fullScans + 1
    /\ pc' = "scan_roi"
    /\ UNCHANGED << cliVars, runVars, exited, exitCode, i, rois, k, rois_in,
                    roiScans, dark, drawn, obsVars >>

\* _process(): one turn of the loop over the carried-in regions.  An
\* IndexError raised by the first drawing of _scan_roi ends the program with
\* a traceback, binarize having run on the region.
RoiScan ==
    /\ pc = "scan_roi"
    /\ k <= Len(rois)
    /\ LET fails == DrawRoiFails(rois[k])
       IN  IF fails
           THEN /\ Exit(1)
                /\ calls' = Append(calls, ScanRoiCalls[1])
                /\ roiScans' = roiScans + 1
                /\ scanned' = Append(scanned, rois[k])
                /\ UNCHANGED << cliVars, runVars, i, rois, new_rois, k,
                                barycenters, fullDets, rois_in, fullScans,
                                dark, drawn, lone, repl >>
           ELSE /\ \E dets \in Detections(LocalPtsIn(vid.scene, rois[k])) :
                     /\ barycenters' = Barycenters(dets)
                     /\ lone' = (lone /\ Len(dets) = 0)
                     /\ IF Len(dets) > 0
                        THEN /\ new_rois' = MergeRois(FrameRows, FrameCols,
                                                      rois[k],
                                                      Barycenters(dets)[1],
                                                      PoisOf(dets), new_rois)
                             /\ rois' = rois
                             /\ repl' = Append(repl,
                                              Replacement(FrameRows, FrameCols,
                                                          rois[k],
                                                          Barycenters(dets)[1],
                                                          PoisOf(dets)))
                        ELSE /\ new_rois' = Miss(rois[k], new_rois).new_rois
                             /\ rois' = [ rois EXCEPT
                                            ![k] = Miss(rois[k], new_rois).roi ]
                             /\ repl' = repl
                /\ calls' = calls \o ScanRoiCalls
                /\ roiScans' = roiScans + 1
                /\ scanned' = Append(scanned, rois[k])
                /\ k' = k + 1
                /\ UNCHANGED << cliVars, runVars, exited, exitCode, pc, i,
                                rois_in, fullDets, fullScans, dark, drawn >>

\* the index, from n on, of the first region of rs whose drawing fails
RECURSIVE FirstFailing(_, _)
FirstFailing(rs, n) ==
    IF n > Len(rs) \/ DrawRoiFails(rs[n]) THEN n ELSE FirstFailing(rs, n + 1)

\* variant: the frame is darkened inside the drawing loop
Draw_DarkenPerRoi ==
    /\ pc = "scan_roi"
    /\ k > Len(rois)
    /\ dark' = dark + Len(new_rois)
    /\ drawn' = Len(new_rois)
    /\ pc' = "return"
    /\ UNCHANGED << cliVars, runVars, exited, exitCode, i, rois, new_rois, k,
                    barycenters, fullDets, rois_in, calls, fullScans,
                    roiScans, lone, obsVars >>

\* _process(): darken the frame and draw every region of the new list; an
\* IndexError raised by a drawing ends the program with a traceback, the
\* frame darkened and the regions before the failing one drawn
Draw ==
    /\ pc = "scan_roi"
    /\ k > Len(rois)
    /\ IF \E n \in 1..Len(new_rois) : DrawRoiFails(new_rois[n])
       THEN /\ Exit(1)
            /\ dark' = dark + 1
            /\ drawn' = FirstFailing(new_rois, 1) - 1
            /\ UNCHANGED << cliVars, runVars, i, rois, new_rois, k,
                            barycenters, fullDets, rois_in, calls, fullScans,
                            roiScans, lone, obsVars >>
       ELSE /\ dark' = dark + 1
            /\ drawn' = Len(new_rois)
            /\ pc' = "return"
            /\ UNCHANGED << cliVars, runVars, exited, exitCode, i, rois,
                            new_rois, k, barycenters, fullDets, rois_in,
                            calls, fullScans, roiScans, lone, obsVars >>

\* process(): rois = _process(...), next frame.  The locals of _process and
\* the per-frame observations end with the call.
Return ==
    /\ pc = "return"
    /\ rois' = new_rois
    /\ i' = i + 1
    /\ pc' = "loop"
    /\ new_rois' = << >>
    /\ k' = 1
    /\ barycenters' = << >>
    /\ fullDets' = << >>
    /\ rois_in' = << >>
    /\ calls' = << >>
    /\ fullScans' = 0
    /\ roiScans' = 0
    /\ dark' = 0
    /\ drawn' = 0
    /\ scanned' = << >>
    /\ repl' = << >>
    /\ UNCHANGED << cliVars, runVars, exited, exitCode, lone >>

\* process(): the loop is exhausted, the buffer is returned to main
ProcessDone ==
    /\ pc = "loop"
    /\ i >= vid.n
    /\ pc' = "save"
    /\ UNCHANGED << cliVars, runVars, exited, exitCode, frameVars >>

\* _save(), then the interpreter ends normally
Save ==
    /\ pc = "save"
    /\ \E f_out \in OutNames : saved' = SaveOutputs(args, f_out, buf)
    /\ pc' = "done"
    /\ exited' = TRUE
    /\ exitCode' = 0
    /\ UNCHANGED << cliVars, cfgRead, loaded, pipe, bufBuilt, buf, frameVars >>

Next ==
    \/ ParseArgs
    \/ MainConfig
    \/ Load
    \/ ProcessInit
    \/ ProcessFrame
    \/ FullScan
    \/ RoiScan
    \/ Draw
    \/ Return
    \/ ProcessDone
    \/ Save

Spec == Init /\ [][Next]_vars

TypeOK ==
    /\ pc \in { "parse_args", "main", "load", "process", "loop", "scan_full",
                "scan_roi", "return", "save", "done", "exit" }
    /\ i \in 0..vid.n
    /\ vid.scene \in Scenes
    /\ loaded \in { "no", "rejected", "ok" }
    /\ exitCode \in { 0, 1, 2 }

\* ================================================================ claims
\* the frame is being scanned by the per-region loop, or _process is about
\* to return new_rois for frame i
InFrame == pc \in { "scan_roi", "return" }

SameBox(a, b) ==
    /\ a.r0 = b.r0 /\ a.r1 = b.r1
    /\ a.c0 = b.c0 /\ a.c1 = b.c1

\* the bounding box of a region built around barycenter p
BoxAround(p) ==
    [ r0 |-> Max(0, p[1] - Margin), r1 |-> Min(FrameRows, p[1] + Margin),
      c0 |-> Max(0, p[2] - Margin), c1 |-> Min(FrameCols, p[2] + Margin) ]

\* C1: for every frame i the full scan runs if and only if i % 15 = 0 or the
\* list carried into the frame is empty, and at most once for that frame.
C1_FullScanIffRescanOrEmpty ==
    /\ fullScans <= 1
    /\ InFrame => (fullScans = 1 <=> (i % 15 = 0 \/ Len(rois_in) = 0))

\* C1 witness: frame 15 ran its full scan although regions were carried in.
C1_Witness ==
    pc = "return" /\ i = 15 /\ Len(rois_in) > 0 /\ fullScans = 1

\* C2: every region's health stays within 0..30, a carried-in region's health
\* never rises during a frame, and every region of the new list either has
\* health 30 (built by a full scan or a re-confirmation) or is a carried-in
\* region punished by exactly one.
C2_HealthWithinLifespan ==
    /\ \A n \in 1..Len(rois) : rois[n].health \in 0..30
    /\ \A n \in 1..Len(new_rois) : new_rois[n].health \in 0..30
    /\ InFrame =>
         /\ Len(rois) = Len(rois_in)
         /\ \A n \in 1..Len(rois) : rois[n].health <= rois_in[n].health
         /\ \A m \in 1..Len(new_rois) :
              \/ new_rois[m].health = 30
              \/ \E n \in 1..Len(rois) :
                   /\ new_rois[m] = rois[n]
                   /\ rois[n].health = rois_in[n].health - 1

\* C2 witness: a frame returns a region punished down to 0 next to a region
\* the full scan just built with health 30.
C2_Witness ==
    /\ pc = "return"
    /\ \E m \in 1..Len(new_rois) : new_rois[m].health = 0
    /\ \E m \in 1..Len(new_rois) : new_rois[m].health = 30

\* C3: the list returned by _process and carried into the next frame holds no
\* region whose health is 0.
C3_NoDeadRegionCarried ==
    /\ pc = "return" => \A n \in 1..Len(new_rois) : new_rois[n].health # 0
    /\ pc = "loop" => \A n \in 1..Len(rois) : rois[n].health # 0

\* C4: if frame 0 yields exactly one full-scan detection and no detection
\* follows, then after each frame k in 1..14 the list holds that one region
\* with health 30 - k and frame k ran no full scan.
C4_LoneRegionDecays ==
    (lone /\ pc = "return" /\ i \in 1..14) =>
        /\ Len(new_rois) = 1
        /\ new_rois[1].health = 30 - i
        /\ fullScans = 0
        /\ roiScans = 1

\* C4 witness: frame 14 of such a run returns the region with health 16.
C4_Witness ==
    /\ lone /\ pc = "return" /\ i = 14
    /\ Len(new_rois) = 1 /\ new_rois[1].health = 16

\* C5 as stated: when the full scan reports two detections whose regions
\* intersect, the region of the second one is not in the frame's new list.
C5_OnlyFirstOfOverlappingKept ==
    (InFrame /\ fullScans = 1 /\ Len(fullDets) = 2
       /\ Intersects(BoxAround(fullDets[1]), BoxAround(fullDets[2]))) =>
        ~(\E m \in 1..Len(new_rois) :
            /\ SameBox(new_rois[m], BoxAround(fullDets[2]))
            /\ new_rois[m].health = 30)

\* C5 amended: every detection of the full scan yields a region of the
\* frame's new list, in detection order and with health 30, whether or not
\* the regions intersect; the new list starts with these regions.
C5_AllFullScanDetectionsKept ==
    (InFrame /\ fullScans = 1) =>
        /\ Len(new_rois) >= Len(fullDets)
        /\ \A j \in 1..Len(fullDets) :
             /\ SameBox(new_rois[j], BoxAround(fullDets[j]))
             /\ new_rois[j].health = 30

\* C5 witness: a frame returns both regions of two intersecting detections.
C5_Witness ==
    /\ pc = "return" /\ fullScans = 1 /\ Len(fullDets) = 2
    /\ Intersects(BoxAround(fullDets[1]), BoxAround(fullDets[2]))
    /\ SameBox(new_rois[1], BoxAround(fullDets[1]))
    /\ SameBox(new_rois[2], BoxAround(fullDets[2]))

\* C6: a restricted scan that re-confirms appends the replacement region to
\* the new list if and only if its bounding box intersects no region already
\* in the list; otherwise the list is left unchanged.
C6_ReplacementIffDisjoint ==
    [][ (pc = "scan_roi" /\ k' = k + 1 /\ Len(barycenters') > 0) =>
          LET box == BoxAround(barycenters'[1][2])
              free == \A n \in 1..Len(new_rois) : ~Intersects(box, new_rois[n])
          IN  IF free
              THEN /\ Len(new_rois') = Len(new_rois) + 1
                   /\ SubSeq(new_rois', 1, Len(new_rois)) = new_rois
                   /\ SameBox(new_rois'[Len(new_rois')], box)
                   /\ new_rois'[Len(new_rois')].health = 30
              ELSE new_rois' = new_rois ]_vars

\* C6 witness: two regions were carried in and both re-confirmed; the first
\* replacement was accepted and the second, intersecting it, was dropped.
C6_Witness ==
    /\ pc = "scan_roi" /\ k = 3 /\ fullScans = 0
    /\ Len(barycenters) > 0
    /\ Len(new_rois) = 1 /\ new_rois[1].health = 30
    /\ rois[1].health = rois_in[1].health

\* C7: a one-frame video whose pipeline reports no detection: one full scan,
\* no restricted scan, an empty list returned, nothing drawn, the frame
\* darkened exactly once.
C7_OneFrameNoDetection ==
    (vid.n = 1 /\ pc = "return" /\ Len(fullDets) = 0) =>
        /\ i = 0
        /\ fullScans = 1
        /\ roiScans = 0
        /\ new_rois = << >>
        /\ drawn = 0
        /\ dark = 1

\* C7 witness: such a run in the default mode, detect having been called.
C7_Witness ==
    /\ vid.n = 1 /\ pc = "return" /\ Len(fullDets) = 0
    /\ ~args.binary /\ ~args.edges
    /\ calls = << <<"full", "binarize">>, <<"full", "edge">>, <<"full", "detect">> >>

\* C8: in binary-only mode neither edge nor detect is invoked, in edges-only
\* mode edge is invoked and detect is not; in both modes the list is empty
\* after every frame, every frame runs the full scan and no restricted scan.
C8_ShortCircuitModes ==
    (pipe.built /\ (args.binary \/ args.edges)) =>
        /\ \A n \in 1..Len(calls) : calls[n][1] = "full" /\ calls[n][2] # "detect"
        /\ args.binary => \A n \in 1..Len(calls) : calls[n][2] # "edge"
        /\ (args.edges /\ InFrame) => calls = << <<"full", "binarize">>, <<"full", "edge">> >>
        /\ (args.binary /\ InFrame) => calls = << <<"full", "binarize">> >>
        /\ rois = << >>
        /\ new_rois = << >>
        /\ roiScans = 0
        /\ InFrame => fullScans = 1

\* C8 witness: the second frame of an edges-only run has been scanned.
C8_Witness ==
    /\ args.edges /\ pc = "return" /\ i = 1
    /\ calls = << <<"full", "binarize">>, <<"full", "edge">> >>

\* C9: with --binary and --edges together, or --save-all with either, the
\* program ends with exit code 2 in parse_args: no configuration read, no
\* video loaded, nothing processed or saved.
C9_InvalidFlagsExit2 ==
    ((args.binary /\ args.edges) \/ (args.save_all /\ (args.binary \/ args.edges))) =>
        /\ pc \in { "parse_args", "exit" }
        /\ pc = "exit" => (exited /\ exitCode = 2)
        /\ ~cfgRead
        /\ loaded = "no"
        /\ ~pipe.built /\ ~bufBuilt
        /\ calls = << >> /\ rois = << >> /\ i = 0
        /\ saved = << >>

\* C9 witness: --save-all with --binary has exited.
C9_Witness ==
    /\ args.save_all /\ args.binary /\ ~args.edges
    /\ pc = "exit" /\ exitCode = 2

\* C10: a loaded video whose colour depth is not 3 ends the program with exit
\* code 2: no buffer or pipeline built, no pipeline call, no region, nothing
\* saved.
C10_WrongDepthExit2 ==
    (vid.depth # 3) =>
        /\ loaded # "ok"
        /\ loaded = "rejected" => (pc = "exit" /\ exited /\ exitCode = 2)
        /\ pc \in { "parse_args", "main", "load", "exit" }
        /\ ~pipe.built /\ ~bufBuilt
        /\ calls = << >> /\ rois = << >> /\ new_rois = << >> /\ i = 0
        /\ saved = << >>

\* C10 witness: load rejected a 4-channel video.
C10_Witness ==
    /\ vid.depth = 4 /\ loaded = "rejected" /\ pc = "exit" /\ exitCode = 2

\* C11 as stated: a run with valid flags and a 3-channel video ends with exit
\* code 0 after saving, with or without --config (the configuration file, when
\* given, having its section); exit code 2 only comes from invalid flags, a
\* wrong colour depth or a configuration file without the section.
C11_ValidRunSucceeds ==
    /\ (exited /\ ~(args.binary /\ args.edges)
          /\ ~(args.save_all /\ (args.binary \/ args.edges))
          /\ vid.depth = 3 /\ args.config # "bad") =>
         (pc = "done" /\ exitCode = 0 /\ Len(saved) > 0)
    /\ (exited /\ exitCode = 2) =>
         \/ (args.binary /\ args.edges)
         \/ (args.save_all /\ (args.binary \/ args.edges))
         \/ vid.depth # 3
         \/ args.config = "bad"

\* C12: with --save-all exactly three sequences are saved, binary, edges and
\* original, to three different names, each with as many frames as the input;
\* without it exactly one: edges under --edges, binary under --binary,
\* original otherwise.
C12_SavedSequences ==
    (pc = "done") =>
        IF args.save_all
        THEN /\ Len(saved) = 3
             /\ { saved[n].seq : n \in 1..3 } = { "binary", "edges", "original" }
             /\ \A a, b \in 1..3 : a # b => saved[a].to # saved[b].to
             /\ \A n \in 1..3 : saved[n].frames = vid.n
        ELSE /\ Len(saved) = 1
             /\ saved[1].seq = IF args.edges THEN "edges"
                               ELSE IF args.binary THEN "binary"
                               ELSE "original"
             /\ saved[1].frames = vid.n

\* C12 witness: a --save-all run wrote its three files for an output name
\* that already holds the word binary.
C12_Witness ==
    /\ pc = "done" /\ args.save_all /\ Len(saved) = 3
    /\ saved[3].to = << "out", "binary", "mp4" >>
    /\ saved[1].to = << "out", "binary", "binary", "mp4" >>

\* C13: within a frame the full scan, if any, completes before any restricted
\* scan; the restricted scans run exactly once per carried-in region, in the
\* order of the carried-in list, and never for a region the same frame's full
\* scan created; frames are processed in increasing index order and the list
\* frame i returns is the list frame i + 1 is given.
C13_ScanOrder ==
    /\ [](InFrame =>
            /\ \A a \in 1..Len(calls) : \A b \in 1..Len(calls) :
                  (a < b /\ calls[a][1] = "roi") => calls[b][1] = "roi"
            /\ roiScans = Len(scanned)
            /\ Len(scanned) <= Len(rois_in)
            /\ scanned = SubSeq(rois_in, 1, Len(scanned))
            /\ (pc = "return" => scanned = rois_in))
    /\ [][/\ i' \in { i, i + 1 }
          /\ (pc = "return" => i' = i + 1 /\ rois' = new_rois)
          /\ (pc' \in { "scan_full", "scan_roi" } /\ pc = "loop") =>
                rois_in' = rois]_vars

C13_Witness ==
    /\ pc = "return"
    /\ i = RescanPeriod
    /\ fullScans = 1
    /\ Len(fullDets) = 1
    /\ Len(rois_in) >= 1
    /\ scanned = rois_in
    /\ Len(new_rois) >= 1

\* C14: in a restricted scan every pipeline stage (binarize, edge, detect)
\* receives sub-region input that contains no debug-marker cell.
C14_StageInputsUnmarked ==
    InFrame =>
        \A n \in 1..Len(scanned) :
            \A stage \in 1..3 : StageInputs(scanned, n)[stage] = {}

\* C15: the replacement region a restricted scan builds has its geometry in
\* full-frame coordinates: its bounding box is the box around the detected
\* barycenter offset by the scanned region's r0 and c0, so a target detected
\* at the place the scanned region was built around keeps the same box.
C15_ReplacementInFrameCoordinates ==
    [][(pc = "scan_roi" /\ Len(repl') = Len(repl) + 1) =>
          LET roi == rois[k]
              b == barycenters'[1][2]
              new == repl'[Len(repl')]
          IN  /\ SameBox(new, BoxAround(<< roi.r0 + b[1], roi.c0 + b[2] >>))
              /\ (b = << Margin, Margin >> /\ roi.r1 - roi.r0 = 2 * Margin
                     /\ roi.c1 - roi.c0 = 2 * Margin) => SameBox(new, roi)]_vars

\* C16: a carried-in region that is already at health 0 and whose restricted
\* scan detects nothing is neither punished nor added to the new list.
C16_DeadRegionDropped ==
    [][(pc = "scan_roi" /\ k' = k + 1 /\ rois[k].health = 0
          /\ Len(barycenters') = 0) =>
         /\ rois'[k] = rois[k]
         /\ new_rois' = new_rois]_vars

\* C16 witness: frame 31 scanned the region that reached health 0 on frame
\* 30; nothing was detected, the region is unchanged and the list empty.
C16_Witness ==
    /\ pc = "scan_roi" /\ i = 31 /\ k = 2 /\ roiScans = 1
    /\ rois_in[1].health = 0
    /\ rois[1] = rois_in[1]
    /\ barycenters = << >>
    /\ new_rois = << >>

\* C17: each carried-in region contributes at most one region to the new
\* list, so on a frame without a full scan the returned list is no longer
\* than the carried-in list.
C17_AtMostOnePerRegion ==
    /\ [](InFrame =>
            /\ Len(new_rois) <= Len(fullDets) + roiScans
            /\ (pc = "return" /\ fullScans = 0) =>
                  Len(new_rois) <= Len(rois_in))
    /\ [][(pc = "scan_roi" /\ k' = k + 1) =>
            Len(new_rois') <= Len(new_rois) + 1]_vars

\* C17 witness: a frame without a full scan carried two regions in, both
\* re-confirmed, and returns fewer regions than it was given.
C17_Witness ==
    /\ pc = "return" /\ fullScans = 0
    /\ Len(rois_in) = 2 /\ Len(repl) = 2
    /\ Len(new_rois) = 1

\* C18: whenever a restricted scan re-confirms, the frame's new list holds
\* the replacement region or a region accepted earlier that intersects it.
C18_ReplacementRepresented ==
    /\ [](InFrame =>
            \A n \in 1..Len(repl) :
                \E m \in 1..Len(new_rois) :
                    \/ new_rois[m] = repl[n]
                    \/ Intersects(repl[n], new_rois[m]))
    /\ [][(pc = "scan_roi" /\ Len(repl') = Len(repl) + 1) =>
            \/ new_rois' = Append(new_rois, repl'[Len(repl')])
            \/ /\ new_rois' = new_rois
               /\ \E m \in 1..Len(new_rois) :
                     Intersects(repl'[Len(repl')], new_rois[m])]_vars

\* C18 witness: the second replacement of a frame was dropped for a region
\* accepted before it that it intersects and differs from.
C18_Witness ==
    /\ pc = "return"
    /\ Len(repl) = 2 /\ Len(new_rois) = 1
    /\ new_rois[1] = repl[1]
    /\ repl[2] # repl[1]
    /\ Intersects(repl[2], new_rois[1])

\* C19: a region detected on frame 0 and never again stays in the returned
\* list for exactly 30 missed frames, with health 30 - j after the j-th and 0
\* after the 30th, and is absent from the list the 31st missed frame
\* returns; its restricted scan runs on every one of these frames, the one
\* at health 0 included, and a detection in a scan at health 0 yields a
\* replacement with full health.
C19_ThirtyMissedFrames ==
    /\ []((lone /\ pc = "return" /\ i \in 1..ROI_LIFESPAN) =>
            /\ Len(new_rois) = 1
            /\ new_rois[1].health = ROI_LIFESPAN - i
            /\ SameBox(new_rois[1], rois_in[1])
            /\ roiScans = 1)
    /\ []((lone /\ pc = "return" /\ i = ROI_LIFESPAN + 1) =>
            /\ Len(rois_in) = 1 /\ rois_in[1].health = 0
            /\ roiScans = 1
            /\ new_rois = << >>)
    /\ [][(pc = "scan_roi" /\ k' = k + 1 /\ rois[k].health = 0
            /\ Len(barycenters') > 0 /\ new_rois = << >>) =>
            /\ Len(new_rois') = 1
            /\ new_rois'[1].health = ROI_LIFESPAN]_vars

\* C19 witness: the 31st missed frame scanned the region at health 0 and
\* returns the empty list.
C19_Witness ==
    /\ lone /\ pc = "return" /\ i = ROI_LIFESPAN + 1
    /\ rois_in[1].health = 0
    /\ roiScans = 1
    /\ new_rois = << >>

====
